---- MODULE Spec2Model ----
(***************************************************************************)
(* Weather-data acquisition and caching layer of agri_dashboard:           *)
(* utils/nasa_data.py (get_historical_data, get_weather_data),             *)
(* utils/cache_utils.py (DataTracker, get_cache_key, save_cached_data,     *)
(* find_matching_cache, load_cached_data)                                  *)
(* and the housekeeping routine of app.py (cleanup_old_files).             *)
(*                                                                         *)
(* Time is an integer clock counted in ticks, TicksPerDay ticks to a       *)
(* calendar day.  A datetime is the tick it falls in, a date is a day      *)
(* number, a float coordinate is an integer count of 1e-5 degrees.  A      *)
(* DataFrame is the set of the timestamps of its rows (the parameter       *)
(* values and the pandas index play no part in the caching decisions).     *)
(***************************************************************************)
EXTENDS Integers, Sequences, FiniteSets, TLC

(* ------------------------------ bounds --------------------------------- *)
TicksPerDay == 2
MaxDay == 1
MaxCalls == 2
MaxTicks == 2
MaxJumps == 1

(* ------------------------- program constants --------------------------- *)
max_age_days == 7
FreshSeconds == 3600
SecondsPerDay == 24 * 60 * 60
max_age_hours == 24

(* Python None for an optional integer argument, and for a file name. *)
None == -1
NoFile == << >>

Days == 0 .. MaxDay
DayCounts == {1}
StartNow == MaxDay * TicksPerDay
(* The shortest period after which housekeeping removes a file. *)
Retention == max_age_days * TicksPerDay + 1

(* Coordinates in units of 1e-5 degree: 32.66894 and 32.66896, which are   *)
(* 0.00002 degrees apart and format to 32.6689 and 32.6690.  Neither lies  *)
(* on a rounding tie of the 4-decimal format.                              *)
Lats == {3266894, 3266896}
Lons == {7181070}

(* datetime.date() and strftime('%Y%m%d'): the calendar day of an instant. *)
Date(t) == t \div TicksPerDay

(* datetime.combine(d, datetime.min.time()) / (d, datetime.max.time()).    *)
DayStart(d) == d * TicksPerDay
DayEnd(d) == d * TicksPerDay + (TicksPerDay - 1)

(* Round4 cutting the digits after the fourth instead of rounding. *)
Round4_truncate(x) == x \div 10

(* f"{x:.4f}": the coordinate rounded to 4 decimals, in units of 1e-4.     *)
Round4(x) == (x + 5) \div 10

Min(S) == CHOOSE x \in S : \A y \in S : x <= y

EmptyIndex == [k \in {} |-> 0]

VARIABLES
    now,        \* the wall clock, in ticks
    trackFile,  \* data/tracking.json: [state, idx, mtime]
    dataFiles,  \* the other files of data/: name -> [rows, ok, mtime]
    cacheDir,   \* data/cache/<fingerprint>.csv + .json: key -> entry
    pc,         \* position of the get_historical_data call in progress
    req,        \* its arguments
    tracker,    \* its DataTracker().tracking
    win,        \* its actual_start_date, actual_end_date
    cached_file,\* its cached_file
    last,       \* outcome of the most recent completed call
    ncalls,     \* number of calls started
    probe,      \* two locations and how the key functions compare them
    store       \* outcome of the most recent cache_utils call made on its own

vars == << now, trackFile, dataFiles, cacheDir, pc, req, tracker, win,
           cached_file, last, ncalls, probe, store >>

(* ------------------------- cache_utils.py ------------------------------ *)

(* DataTracker.get_location_key *)
get_location_key(latitude, longitude) ==
    << Round4(latitude), Round4(longitude) >>

(* nasa_data.get_cached_filename: the four arguments joined in the order   *)
(* they are passed.  Dates are small integers and coordinates large ones,  *)
(* so the tuple is as injective as the formatted name.                     *)
get_cached_filename(start_date, end_date, latitude, longitude) ==
    << start_date, end_date, latitude, longitude >>

(* Covers with the datetimes compared as instants, not as dates. *)
Covers_instants(data_range, start_date, end_date) ==
    /\ data_range.start_date <= start_date
    /\ data_range.end_date >= end_date

(* The condition of line 69 without its comparison of the end dates. *)
Covers_start_only(data_range, start_date, end_date) ==
    Date(data_range.start_date) <= Date(start_date)

(* The condition of line 69 with the end compared as an instant. *)
Covers_end_instant(data_range, start_date, end_date) ==
    /\ Date(data_range.start_date) <= Date(start_date)
    /\ data_range.end_date >= end_date

(* The condition of cache_utils.py line 69. *)
Covers(data_range, start_date, end_date) ==
    /\ Date(data_range.start_date) <= Date(start_date)
    /\ Date(data_range.end_date) >= Date(end_date)

(* find_matching_data passing over the records written more than a day    *)
(* ago.                                                                    *)
find_matching_data_aged(tracking, files, latitude, longitude, start_date, end_date) ==
    LET location_key == get_location_key(latitude, longitude) IN
    IF location_key \notin DOMAIN tracking THEN NoFile
    ELSE LET ranges == tracking[location_key].data_ranges
             found == { i \in 1 .. Len(ranges) :
                          /\ Covers(ranges[i], start_date, end_date)
                          /\ ranges[i].filename \in DOMAIN files
                          /\ now - ranges[i].downloaded_at <= TicksPerDay }
         IN IF found = {} THEN NoFile ELSE ranges[Min(found)].filename

(* find_matching_data returning the first covering record without looking *)
(* for its file.                                                           *)
find_matching_data_no_exists(tracking, files, latitude, longitude, start_date, end_date) ==
    LET location_key == get_location_key(latitude, longitude) IN
    IF location_key \notin DOMAIN tracking THEN NoFile
    ELSE LET ranges == tracking[location_key].data_ranges
             found == { i \in 1 .. Len(ranges) :
                          Covers(ranges[i], start_date, end_date) }
         IN IF found = {} THEN NoFile ELSE ranges[Min(found)].filename

(* DataTracker.find_matching_data over an in-memory index and the files    *)
(* currently on disk.                                                      *)
find_matching_data(tracking, files, latitude, longitude, start_date, end_date) ==
    LET location_key == get_location_key(latitude, longitude) IN
    IF location_key \notin DOMAIN tracking THEN NoFile
    ELSE LET ranges == tracking[location_key].data_ranges
             found == { i \in 1 .. Len(ranges) :
                          /\ Covers(ranges[i], start_date, end_date)
                          /\ ranges[i].filename \in DOMAIN files }
         IN IF found = {} THEN NoFile ELSE ranges[Min(found)].filename

(* add_data_entry replacing the location's list by the new record. *)
add_data_entry_replace(tracking, latitude, longitude, start_date, end_date, filename, at) ==
    LET location_key == get_location_key(latitude, longitude)
        entry == [start_date |-> start_date, end_date |-> end_date,
                  filename |-> filename, downloaded_at |-> at]
    IN [k \in DOMAIN tracking \cup {location_key} |->
          IF k = location_key
          THEN [latitude |-> latitude, longitude |-> longitude,
                data_ranges |-> << entry >>]
          ELSE tracking[k]]

(* add_data_entry putting the new record in front of the list. *)
add_data_entry_prepend(tracking, latitude, longitude, start_date, end_date, filename, at) ==
    LET location_key == get_location_key(latitude, longitude)
        entry == [start_date |-> start_date, end_date |-> end_date,
                  filename |-> filename, downloaded_at |-> at]
        old == IF location_key \in DOMAIN tracking
               THEN tracking[location_key]
               ELSE [latitude |-> latitude, longitude |-> longitude,
                     data_ranges |-> << >>]
    IN [k \in DOMAIN tracking \cup {location_key} |->
          IF k = location_key
          THEN [old EXCEPT !.data_ranges = << entry >> \o @]
          ELSE tracking[k]]

(* add_data_entry putting the new record in the place of the records of   *)
(* the same window instead of after them.                                  *)
add_data_entry_repair(tracking, latitude, longitude, start_date, end_date, filename, at) ==
    LET location_key == get_location_key(latitude, longitude)
        entry == [start_date |-> start_date, end_date |-> end_date,
                  filename |-> filename, downloaded_at |-> at]
        Other(A) == A.start_date # start_date \/ A.end_date # end_date
        old == IF location_key \in DOMAIN tracking
               THEN [tracking[location_key] EXCEPT
                       !.data_ranges = SelectSeq(@, Other)]
               ELSE [latitude |-> latitude, longitude |-> longitude,
                     data_ranges |-> << >>]
    IN [k \in DOMAIN tracking \cup {location_key} |->
          IF k = location_key
          THEN [old EXCEPT !.data_ranges = Append(@, entry)]
          ELSE tracking[k]]

(* DataTracker.add_data_entry: the index after the append. *)
add_data_entry(tracking, latitude, longitude, start_date, end_date, filename, at) ==
    LET location_key == get_location_key(latitude, longitude)
        entry == [start_date |-> start_date, end_date |-> end_date,
                  filename |-> filename, downloaded_at |-> at]
        old == IF location_key \in DOMAIN tracking
               THEN tracking[location_key]
               ELSE [latitude |-> latitude, longitude |-> longitude,
                     data_ranges |-> << >>]
    IN [k \in DOMAIN tracking \cup {location_key} |->
          IF k = location_key
          THEN [old EXCEPT !.data_ranges = Append(@, entry)]
          ELSE tracking[k]]

(* get_cache_key leaving the explicit range out of the parameter string. *)
get_cache_key_no_range(latitude, longitude, days, start_date, end_date) ==
    << Round4(latitude), Round4(longitude), days >>

(* get_cache_key: the md5 digest is injective on the parameter string,     *)
(* which is the rounded location followed by the range or the day count.   *)
get_cache_key(latitude, longitude, days, start_date, end_date) ==
    IF start_date # None /\ end_date # None
    THEN << Round4(latitude), Round4(longitude), Date(start_date), Date(end_date) >>
    ELSE << Round4(latitude), Round4(longitude), days >>

(* A cache entry is the pair <key>.csv / <key>.json of data/cache:         *)
(* rows is the table in the csv, csv and json tell whether each file       *)
(* parses ("ok"), holds text its reader rejects ("corrupt") or does not    *)
(* exist ("absent"), meta is the content of a json that parses.            *)
NoKey == << >>
NoMeta == [latitude |-> 0, longitude |-> 0, days |-> None, timestamp |-> 0,
           range_start |-> None, range_end |-> None]

Max(S) == CHOOSE x \in S : \A y \in S : x >= y

(* Where save_cached_data can leave its try block: nowhere ("none"), at    *)
(* makedirs, sort_values or the opening of the csv ("before"), while       *)
(* to_csv writes ("to_csv"), or while json.dump writes ("json_dump").      *)
SaveFaults == {"none", "before", "to_csv", "json_dump"}

(* save_cached_data writing the payload only, and returning True once it  *)
(* is written.                                                             *)
save_cached_data_payload_only(dir, df, latitude, longitude, days, start_date, end_date, at, fault) ==
    LET cache_key == get_cache_key(latitude, longitude, days, start_date, end_date)
        old == IF cache_key \in DOMAIN dir THEN dir[cache_key]
               ELSE [rows |-> {}, csv |-> "absent", json |-> "absent",
                     meta |-> NoMeta, mtime |-> at]
        new == [rows |-> df, csv |-> "ok", json |-> old.json, meta |-> old.meta,
                mtime |-> at]
    IN [dir |-> IF fault = "before" THEN dir
                ELSE [k \in DOMAIN dir \cup {cache_key} |->
                        IF k = cache_key THEN new ELSE dir[k]],
        ret |-> fault # "before"]

(* save_cached_data: the directory it leaves and the value it returns,     *)
(* when its try block is left at fault.  Both files get the modification   *)
(* time of the call.                                                       *)
save_cached_data(dir, df, latitude, longitude, days, start_date, end_date, at, fault) ==
    LET cache_key == get_cache_key(latitude, longitude, days, start_date, end_date)
        old == IF cache_key \in DOMAIN dir THEN dir[cache_key]
               ELSE [rows |-> {}, csv |-> "absent", json |-> "absent",
                     meta |-> NoMeta, mtime |-> at]
        metadata == [latitude |-> latitude, longitude |-> longitude,
                     days |-> days, timestamp |-> at,
                     range_start |-> IF df = {} THEN None ELSE Min(df),
                     range_end |-> IF df = {} THEN None ELSE Max(df)]
        new == CASE fault = "to_csv" ->
                      [old EXCEPT !.rows = {}, !.csv = "corrupt", !.mtime = at]
                 [] fault = "json_dump" ->
                      [rows |-> df, csv |-> "ok", json |-> "corrupt",
                       meta |-> NoMeta, mtime |-> at]
                 [] OTHER ->
                      [rows |-> df, csv |-> "ok", json |-> "ok",
                       meta |-> metadata, mtime |-> at]
    IN [dir |-> IF fault = "before" THEN dir
                ELSE [k \in DOMAIN dir \cup {cache_key} |->
                        IF k = cache_key THEN new ELSE dir[k]],
        ret |-> fault = "none"]

(* SameLocation demanding equal coordinates. *)
SameLocation_exact(metadata, latitude, longitude) ==
    metadata.latitude = latitude /\ metadata.longitude = longitude

(* The location test of find_matching_cache, cache_utils.py lines 147-148. *)
SameLocation(metadata, latitude, longitude) ==
    LET dlat == metadata.latitude - latitude
        dlon == metadata.longitude - longitude
        Abs(x) == IF x < 0 THEN -x ELSE x
    IN Abs(dlat) < 10 /\ Abs(dlon) < 10

(* os.listdir gives the names in arbitrary order: every order of the keys  *)
(* that have a .json file.                                                 *)
Listings(dir) ==
    LET S == { k \in DOMAIN dir : dir[k].json # "absent" }
    IN { o \in [1 .. Cardinality(S) -> S] :
           \A i, j \in 1 .. Cardinality(S) : o[i] = o[j] => i = j }

(* find_matching_cache over the listing order: the key of the first entry  *)
(* whose metadata matches the location and covers the range, "none" when   *)
(* the scan ends without one, raised when the except clause of line 164    *)
(* ended the scan (json.load on a corrupt file, fromisoformat on the       *)
(* 'NaT' range of an empty table, read_csv on a corrupt payload).          *)
RECURSIVE find_matching_cache(_, _, _, _, _, _)
find_matching_cache(dir, order, latitude, longitude, start_date, end_date) ==
    IF order = << >>
    THEN [kind |-> "none", key |-> NoKey, raised |-> FALSE]
    ELSE LET k == Head(order)
             metadata == dir[k].meta
         IN IF dir[k].json = "corrupt"
            THEN [kind |-> "none", key |-> NoKey, raised |-> TRUE]
            ELSE IF ~SameLocation(metadata, latitude, longitude)
            THEN find_matching_cache(dir, Tail(order), latitude, longitude,
                                     start_date, end_date)
            ELSE IF metadata.range_start = None
            THEN [kind |-> "none", key |-> NoKey, raised |-> TRUE]
            ELSE IF ~(/\ Date(metadata.range_start) <= Date(start_date)
                      /\ Date(metadata.range_end) >= Date(end_date))
            THEN find_matching_cache(dir, Tail(order), latitude, longitude,
                                     start_date, end_date)
            ELSE IF dir[k].csv = "absent"
            THEN find_matching_cache(dir, Tail(order), latitude, longitude,
                                     start_date, end_date)
            ELSE IF dir[k].csv = "corrupt"
            THEN [kind |-> "none", key |-> NoKey, raised |-> TRUE]
            ELSE [kind |-> "df", key |-> k, raised |-> FALSE]

(* FilterRows without the upper bound of the date filter. *)
FilterRows_no_upper(rows, start_date, end_date) ==
    { t \in rows : Date(t) >= Date(start_date) }

(* The date filter of nasa_data.py lines 132-135 (and cache_utils.py       *)
(* lines 178-181).                                                         *)
FilterRows(rows, start_date, end_date) ==
    { t \in rows : Date(t) >= Date(start_date) /\ Date(t) <= Date(end_date) }

(* IsStale rejecting an entry from the age max_age_hours on. *)
IsStale_inclusive(timestamp, at) == (at - timestamp) * 24 >= max_age_hours * TicksPerDay

(* No age check at all. *)
IsStale_never(timestamp, at) == FALSE

(* age_hours > max_age_hours at cache_utils.py line 201, for a timestamp   *)
(* and a clock counted in ticks.                                           *)
IsStale(timestamp, at) == (at - timestamp) * 24 > max_age_hours * TicksPerDay

(* Absent without the except clause of load_cached_data: the exception     *)
(* reaches the caller.                                                     *)
Absent_uncaught(path, scan_raised, raised) ==
    [kind |-> IF raised THEN "exception" ELSE "none", rows |-> {},
     meta |-> NoKey, path |-> path, scan_raised |-> scan_raised,
     raised |-> raised]

(* (None, None) returned by load_cached_data at the return statement path  *)
(* ("exact": lines 191 and 202, "except": line 211).                       *)
Absent(path, scan_raised, raised) ==
    [kind |-> "none", rows |-> {}, meta |-> NoKey, path |-> path,
     scan_raised |-> scan_raised, raised |-> raised]

(* load_cached_data: what it returns, given the listing order the coverage *)
(* scan meets.  kind "df" is (df, metadata), with meta the key of the      *)
(* entry the metadata comes from; kind "none" is (None, None).  path says  *)
(* which return statement was taken, scan_raised whether the coverage scan *)
(* ended in its except clause, raised whether the except clause of line    *)
(* 209 was taken.                                                          *)
load_cached_data(dir, order, latitude, longitude, days, start_date, end_date, at) ==
    LET scan == IF start_date # None /\ end_date # None
                THEN find_matching_cache(dir, order, latitude, longitude,
                                         start_date, end_date)
                ELSE [kind |-> "none", key |-> NoKey, raised |-> FALSE]
        filtered == IF scan.kind = "df"
                    THEN FilterRows(dir[scan.key].rows, start_date, end_date)
                    ELSE {}
        cache_key == get_cache_key(latitude, longitude, days, start_date, end_date)
    IN IF filtered # {}
       THEN [kind |-> "df", rows |-> filtered, meta |-> scan.key,
             path |-> "coverage", scan_raised |-> FALSE, raised |-> FALSE]
       ELSE IF cache_key \notin DOMAIN dir
       THEN Absent("exact", scan.raised, FALSE)
       ELSE IF dir[cache_key].csv = "absent" \/ dir[cache_key].json = "absent"
       THEN Absent("exact", scan.raised, FALSE)
       ELSE IF dir[cache_key].json = "corrupt"
       THEN Absent("except", scan.raised, TRUE)
       ELSE IF IsStale(dir[cache_key].meta.timestamp, at)
       THEN Absent("exact", scan.raised, FALSE)
       ELSE IF dir[cache_key].csv = "corrupt"
       THEN Absent("except", scan.raised, TRUE)
       ELSE [kind |-> "df", rows |-> dir[cache_key].rows, meta |-> cache_key,
             path |-> "exact", scan_raised |-> scan.raised, raised |-> FALSE]

(* load_cached_data can return a dataset rather than (None, None). *)
load_cached_data_found(dir, latitude, longitude, days, start_date, end_date, at) ==
    \E order \in Listings(dir) :
        load_cached_data(dir, order, latitude, longitude, days,
                         start_date, end_date, at).kind = "df"

(* --------------------------- nasa_data.py ------------------------------ *)

Requests ==
    [latitude : Lats, longitude : Lons, days : {None},
     start_date : Days, end_date : Days]
    \cup
    [latitude : Lats, longitude : Lons, days : DayCounts,
     start_date : {None}, end_date : {None}]

IsRange(r) == r.start_date # None /\ r.end_date # None

(* Window taking the day count, when one is supplied, before the range. *)
Window_days_first(r, t) ==
    IF r.days # None
    THEN [actual_start_date |-> t - r.days * TicksPerDay,
          actual_end_date |-> t]
    ELSE [actual_start_date |-> DayStart(r.start_date),
          actual_end_date |-> DayEnd(r.end_date)]

(* Lines 113-121: the window of a request made at instant t. *)
Window(r, t) ==
    IF IsRange(r)
    THEN [actual_start_date |-> DayStart(r.start_date),
          actual_end_date |-> DayEnd(r.end_date)]
    ELSE [actual_start_date |-> t - r.days * TicksPerDay,
          actual_end_date |-> t]

(* The hourly rows the API holds at instant t for the dates start..end     *)
(* (one per tick): it holds no observation of the future.                  *)
WindowRows(start_day, end_day, t) ==
    { u \in DayStart(start_day) .. DayEnd(end_day) : u <= t }

(* What requests.get and the parsing and cleaning of lines 77-98 can       *)
(* produce: an exception (requests.get fails to connect, next() finds no   *)
(* line with 'YEAR', the outlier detector rejects the table), a non-200    *)
(* status, or the cleaned table, which keeps the rows of some of the       *)
(* requested days.                                                         *)
RemoteOutcomes(start_day, end_day, t) ==
    { [kind |-> "exception", rows |-> {}],
      [kind |-> "status", rows |-> {}] }
    \cup
    { [kind |-> "ok",
       rows |-> { u \in WindowRows(start_day, end_day, t) : Date(u) \in D }] :
        D \in SUBSET (start_day .. end_day) }

(* IsFresh with the age limit taken as a day instead of an hour. *)
IsFresh_day(mtime, t) == (t - mtime) * (SecondsPerDay \div TicksPerDay) < SecondsPerDay

(* get_weather_data never taking its own file. *)
IsFresh_never(mtime, t) == FALSE

(* file_age < 3600 at nasa_data.py line 58, for an age counted in ticks. *)
IsFresh(mtime, t) == (t - mtime) * (SecondsPerDay \div TicksPerDay) < FreshSeconds

NoResult == [kind |-> "none", rows |-> {}]
Frame(rows) == [kind |-> "df", rows |-> rows]

NoCall == [req |-> [latitude |-> 0, longitude |-> 0, days |-> None,
                    start_date |-> None, end_date |-> None],
           win |-> [actual_start_date |-> 0, actual_end_date |-> 0],
           status |-> "none", hit |-> FALSE, df |-> NoResult,
           fetches |-> 0, file |-> NoFile, at |-> 0]

(* What the caller and the remote service see of a completed call: the     *)
(* returned pair or the exception raised, the number of requests.get       *)
(* calls, and the tracked payload the call read or wrote.                  *)
Outcome(status, hit, df, fetches, file) ==
    [req |-> req, win |-> win, status |-> status, hit |-> hit, df |-> df,
     fetches |-> fetches, file |-> file, at |-> now]

(* The call is over: its locals are gone. *)
Return ==
    /\ req' = NoCall.req
    /\ win' = NoCall.win
    /\ tracker' = EmptyIndex
    /\ cached_file' = NoFile

NoProbe == [phase |-> "none", a |-> << 0, 0 >>, b |-> << 0, 0 >>,
            same_key |-> FALSE, same_cache_key |-> FALSE, same_match |-> FALSE]

NoNorm == [status |-> "none", days |-> None, win |-> NoCall.win]

(* get_historical_data lines 113-121 for any combination of arguments:     *)
(* the local days and the window it goes on with, or the TypeError that    *)
(* timedelta(days=None) raises.                                            *)
Normalized(r, t) ==
    IF IsRange(r)
    THEN [status |-> "ok", days |-> (r.end_date - r.start_date) + 1,
          win |-> Window(r, t)]
    ELSE IF r.days = None
    THEN [NoNorm EXCEPT !.status = "TypeError"]
    ELSE [status |-> "ok", days |-> r.days, win |-> Window(r, t)]

(* --- clean_weather_data --- *)

(* A missing value of a numeric column (NaN), as a number no reading has. *)
NaN == -1000000

(* The value the API puts where it has no reading. *)
Sentinel == -999

Columns == {"T2M", "RH2M", "WS2M", "PRECTOTCORR", "WD2M"}

(* A table: its parameter columns and its rows by index label. *)
NoTable == [cols |-> {}, rows |-> << >>]

NoCleaned == [status |-> "none", df |-> NoTable]

isna(x) == x = NaN

(* Series.between with the upper bound left out. *)
between_lower_only(x, left, right) == ~isna(x) /\ left <= x

(* Series.between: inclusive on both sides, false for NaN. *)
between(x, left, right) == ~isna(x) /\ left <= x /\ x <= right

(* The rows of df whose labels are in keep, under their labels. *)
Restrict(df, keep) ==
    [df EXCEPT !.rows = [i \in (DOMAIN df.rows) \cap keep |-> df.rows[i]]]

(* Lines 17-18: the numeric columns but Date and WD2M. *)
numerical_cols(df) == df.cols \ {"Date", "WD2M"}

(* Line 21: DataFrame.dropna(subset=...). *)
dropna(df, subset) ==
    Restrict(df, {i \in DOMAIN df.rows :
                    \A c \in subset : ~isna(df.rows[i][c])})

(* One of lines 35-42: the filter runs only when the column is there. *)
Constrain(df, col, left, right) ==
    IF col \in df.cols
    THEN Restrict(df, {i \in DOMAIN df.rows :
                         between(df.rows[i][col], left, right)})
    ELSE df

(* Lines 14-44.  detector is what EllipticEnvelope.fit_predict does with   *)
(* the rows it is given: it raises, or labels the rows in inliers with 1.  *)
(* It raises on a table without rows.                                      *)
clean_weather_data(df, detector) ==
    LET dropped == dropna(df, numerical_cols(df))
    IN IF DOMAIN dropped.rows = {} \/ detector.raised
       THEN [NoCleaned EXCEPT !.status = "ValueError"]
       ELSE LET kept == Restrict(dropped, detector.inliers)
                rh == Constrain(kept, "RH2M", 0, 100)
                t == Constrain(rh, "T2M", -50, 60)
                prec == Constrain(t, "PRECTOTCORR", 0, 500)
                wd == Constrain(prec, "WD2M", 0, 360)
            IN [status |-> "ok", df |-> wd]

(* No cache_utils function has been called on its own. *)
NoStore == [op |-> "none", r |-> NoCall.req, df |-> {}, ret |-> FALSE,
            existed |-> FALSE, fault |-> "none", file |-> NoFile,
            norm |-> NoNorm, table |-> NoTable, cleaned |-> NoCleaned,
            out |-> Absent("none", FALSE, FALSE)]

Files ==
    /\ now = StartNow
    /\ trackFile = [state |-> "absent", idx |-> EmptyIndex, mtime |-> 0]
    /\ dataFiles = [n \in {} |-> 0]
    /\ cacheDir = [k \in {} |-> 0]
    /\ pc = "idle"
    /\ req = NoCall.req
    /\ tracker = EmptyIndex
    /\ win = NoCall.win
    /\ cached_file = NoFile
    /\ last = NoCall
    /\ ncalls = 0
    /\ store = NoStore

Init == Files /\ probe = NoProbe

(* Time passes between two calls (a call completes within a tick): one     *)
(* tick, at most MaxTicks times in each retention period.                  *)
Tick ==
    /\ pc = "idle"
    /\ (now - StartNow) % Retention < MaxTicks
    /\ now' = now + 1
    /\ UNCHANGED << trackFile, dataFiles, cacheDir, pc, req, tracker, win,
                    cached_file, last, ncalls, probe, store >>

(* Time passes: a whole retention period, at most MaxJumps times. *)
Jump ==
    /\ pc = "idle"
    /\ (now - StartNow) \div Retention < MaxJumps
    /\ now' = now + Retention
    /\ UNCHANGED << trackFile, dataFiles, cacheDir, pc, req, tracker, win,
                    cached_file, last, ncalls, probe, store >>

(* app.cleanup_old_files: every regular file of data/ and data/cache whose *)
(* modification time is more than max_age_days old is removed.             *)
Expired(mtime) == now - mtime > max_age_days * TicksPerDay

cleanup_old_files ==
    /\ trackFile' = IF trackFile.state # "absent" /\ Expired(trackFile.mtime)
                    THEN [state |-> "absent", idx |-> EmptyIndex, mtime |-> 0]
                    ELSE trackFile
    /\ dataFiles' = [n \in { m \in DOMAIN dataFiles : ~Expired(dataFiles[m].mtime) }
                       |-> dataFiles[n]]
    /\ cacheDir' = [k \in { j \in DOMAIN cacheDir : ~Expired(cacheDir[j].mtime) }
                       |-> cacheDir[k]]
    /\ UNCHANGED << now, pc, req, tracker, win, cached_file, last, ncalls,
                    probe, store >>

(* load_tracking starting from an empty index whatever the file holds. *)
load_tracking_fresh == EmptyIndex

(* DataTracker.load_tracking: the index read from (or initialised in)      *)
(* data/tracking.json.                                                     *)
load_tracking == IF trackFile.state = "ok" THEN trackFile.idx ELSE EmptyIndex

(* get_historical_data lines 111-126: construct the tracker, normalise the *)
(* request, look up the tracker.                                           *)
Call(r) ==
    /\ pc = "idle"
    /\ ncalls' = ncalls + 1
    /\ UNCHANGED << now, dataFiles, cacheDir, probe, store >>
    /\ IF trackFile.state = "corrupt"
       THEN \* json.load raises in DataTracker.__init__
            /\ last' = [req |-> r, win |-> Window(r, now), status |-> "JSONDecodeError",
                        hit |-> FALSE, df |-> NoResult, fetches |-> 0,
                        file |-> NoFile, at |-> now]
            /\ pc' = "idle"
            /\ req' = NoCall.req
            /\ win' = NoCall.win
            /\ UNCHANGED << trackFile, tracker, cached_file >>
       ELSE /\ req' = r
            /\ win' = Window(r, now)
            /\ tracker' = load_tracking
            /\ trackFile' = IF trackFile.state = "absent"
                            THEN [state |-> "ok", idx |-> EmptyIndex, mtime |-> now]
                            ELSE trackFile
            /\ cached_file' = find_matching_data(tracker', dataFiles,
                                  r.latitude, r.longitude,
                                  win'.actual_start_date, win'.actual_end_date)
            /\ UNCHANGED last
            /\ pc' = IF cached_file' # NoFile THEN "load" ELSE "fetch"

(* A call of get_historical_data, one of at most MaxCalls. *)
Begin(r) == ncalls < MaxCalls /\ Call(r)

(* The hit path going on to write the index it holds back to the file. *)
Load_saves ==
    /\ pc = "load"
    /\ pc' = "idle"
    /\ cached_file \in DOMAIN dataFiles /\ dataFiles[cached_file].ok
    /\ last' = Outcome("returned", TRUE,
                       Frame(FilterRows(dataFiles[cached_file].rows,
                                        win.actual_start_date,
                                        win.actual_end_date)), 0, cached_file)
    /\ trackFile' = [state |-> "ok", mtime |-> now, idx |-> tracker]
    /\ Return
    /\ UNCHANGED << now, dataFiles, cacheDir, ncalls, probe, store >>

(* get_historical_data lines 128-136: load the tracked payload and filter. *)
Load ==
    /\ pc = "load"
    /\ pc' = "idle"
    /\ IF cached_file \in DOMAIN dataFiles
       THEN IF dataFiles[cached_file].ok
            THEN last' = Outcome("returned", TRUE,
                            Frame(FilterRows(dataFiles[cached_file].rows,
                                             win.actual_start_date,
                                             win.actual_end_date)), 0,
                            cached_file)
            ELSE last' = Outcome("ParserError", FALSE, NoResult, 0, NoFile)
       ELSE last' = Outcome("FileNotFoundError", FALSE, NoResult, 0, NoFile)
    /\ Return
    /\ UNCHANGED << now, trackFile, dataFiles, cacheDir, ncalls, probe, store >>

(* get_historical_data lines 138-156 with get_weather_data inlined. *)
Miss ==
    /\ pc = "fetch"
    /\ pc' = "idle"
    /\ LET start_date == Date(win.actual_start_date)
           end_date == Date(win.actual_end_date)
           cache_file == get_cached_filename(start_date, end_date,
                                             req.latitude, req.longitude)
           usable == /\ cache_file \in DOMAIN dataFiles
                     /\ IsFresh(dataFiles[cache_file].mtime, now)
                     /\ dataFiles[cache_file].ok
           filename == get_cached_filename(req.latitude, req.longitude,
                                           win.actual_start_date,
                                           win.actual_end_date)
           Finish(rows, fetches, files) ==
               \* lines 146-156
               IF rows # {}
               THEN /\ dataFiles' = [n \in DOMAIN files \cup {filename} |->
                                       IF n = filename
                                       THEN [rows |-> rows, ok |-> TRUE, mtime |-> now]
                                       ELSE files[n]]
                    /\ trackFile' = [state |-> "ok", mtime |-> now,
                                     idx |-> add_data_entry(tracker,
                                               req.latitude, req.longitude,
                                               win.actual_start_date,
                                               win.actual_end_date, filename, now)]
                    /\ last' = Outcome("returned", FALSE, Frame(rows), fetches,
                                        filename)
               ELSE /\ dataFiles' = files
                    /\ UNCHANGED trackFile
                    /\ last' = Outcome("returned", FALSE, Frame(rows), fetches,
                                        NoFile)
       IN IF usable
          THEN Finish(dataFiles[cache_file].rows, 0, dataFiles)
          ELSE \E o \in RemoteOutcomes(start_date, end_date, now) :
                 CASE o.kind = "ok" ->
                        Finish(o.rows, 1,
                               [n \in DOMAIN dataFiles \cup {cache_file} |->
                                  IF n = cache_file
                                  THEN [rows |-> o.rows, ok |-> TRUE, mtime |-> now]
                                  ELSE dataFiles[n]])
                   [] o.kind = "status" ->
                        /\ last' = Outcome("returned", FALSE, NoResult, 1, NoFile)
                        /\ UNCHANGED << trackFile, dataFiles >>
                   [] OTHER ->
                        /\ last' = Outcome("RemoteException", FALSE, NoResult, 1,
                                            NoFile)
                        /\ UNCHANGED << trackFile, dataFiles >>
    /\ Return
    /\ UNCHANGED << now, cacheDir, ncalls, probe, store >>

Next ==
    \/ Tick
    \/ Jump
    \/ cleanup_old_files
    \/ \E r \in Requests : Begin(r)
    \/ Load
    \/ Miss

Spec == Init /\ [][Next]_vars

(* ------------------- storage faults (non-atomic writes) ---------------- *)

(* save_tracking opens the file for writing and dumps into it: a write     *)
(* that is interrupted, or an edit from outside, leaves text json.load     *)
(* rejects.                                                                *)
CorruptTracking ==
    /\ trackFile.state = "ok"
    /\ trackFile' = [trackFile EXCEPT !.state = "corrupt"]
    /\ UNCHANGED << now, dataFiles, cacheDir, pc, req, tracker, win,
                    cached_file, last, ncalls, probe, store >>

(* The same for a payload written by df.to_csv: pd.read_csv then raises. *)
CorruptPayload ==
    /\ \E n \in DOMAIN dataFiles :
         /\ dataFiles[n].ok
         /\ dataFiles' = [dataFiles EXCEPT ![n].ok = FALSE]
    /\ UNCHANGED << now, trackFile, cacheDir, pc, req, tracker, win,
                    cached_file, last, ncalls, probe, store >>

NextFault ==
    \/ Tick
    \/ Jump
    \/ cleanup_old_files
    \/ \E r \in Requests : Begin(r)
    \/ Load
    \/ Miss
    \/ CorruptTracking
    \/ CorruptPayload

SpecFault == Init /\ [][NextFault]_vars

(* ------------------------- location keys ------------------------------- *)

(* 32.66890, 32.66894, 32.66896, 32.66904, 32.66994 and three longitudes,  *)
(* none on a rounding tie.                                                 *)
KeyLats == {3266890, 3266894, 3266896, 3266904, 3266994}
KeyLons == {7181070, 7181074, 7181076}
KeyLocations == KeyLats \X KeyLons

InitKey ==
    /\ Files
    /\ \E a \in KeyLocations, b \in KeyLocations, form \in {"days", "range"} :
         probe = [NoProbe EXCEPT !.phase = form, !.a = a, !.b = b]

(* The three same-location decisions applied to the two locations: the     *)
(* tracker key, the cache fingerprint of the same query, and the test      *)
(* find_matching_cache applies to an entry saved for a.                    *)
CompareKeys ==
    /\ probe.phase \in {"days", "range"}
    /\ LET a == probe.a
           b == probe.b
           days == IF probe.phase = "days" THEN 1 ELSE None
           s == IF probe.phase = "days" THEN None ELSE DayStart(0)
           e == IF probe.phase = "days" THEN None ELSE DayEnd(MaxDay)
       IN probe' = [probe EXCEPT
            !.phase = "done",
            !.same_key = (get_location_key(a[1], a[2]) = get_location_key(b[1], b[2])),
            !.same_cache_key = (get_cache_key(a[1], a[2], days, s, e)
                                = get_cache_key(b[1], b[2], days, s, e)),
            !.same_match = SameLocation([latitude |-> a[1], longitude |-> a[2]],
                                        b[1], b[2])]
    /\ UNCHANGED << now, trackFile, dataFiles, cacheDir, pc, req, tracker, win,
                    cached_file, last, ncalls, store >>

NextKey == CompareKeys

SpecKey == InitKey /\ [][NextKey]_vars

(* --------------------------- cache store ------------------------------- *)

(* save_cached_data and load_cached_data have no caller in the repository: *)
(* they are exercised here on their own, with every argument a caller can  *)
(* pass from the sets below.                                               *)
CacheDays == 0 .. MaxDay + 1

(* Tables that hold all the rows of some of the days: of none, of the      *)
(* middle day, of the two outer days, of all three.                        *)
CacheFrames ==
    { UNION { DayStart(d) .. DayEnd(d) : d \in D } :
        D \in { {}, {MaxDay}, CacheDays \ {MaxDay}, CacheDays } }

(* The explicit range asked for: the middle day. *)
CacheWindows == { << MaxDay, MaxDay >> }

CacheRequests ==
    [latitude : Lats, longitude : Lons, days : DayCounts,
     start_date : {None}, end_date : {None}]
    \cup
    { [latitude |-> lat, longitude |-> lon, days |-> d,
       start_date |-> DayStart(w[1]), end_date |-> DayEnd(w[2])] :
        lat \in Lats, lon \in Lons, d \in DayCounts, w \in CacheWindows }

SaveCachedData(r, df, fault) ==
    /\ ncalls < MaxCalls
    /\ ncalls' = ncalls + 1
    /\ LET saved == save_cached_data(cacheDir, df, r.latitude, r.longitude,
                        r.days, r.start_date, r.end_date, now, fault)
       IN /\ cacheDir' = saved.dir
          /\ store' = [NoStore EXCEPT !.op = "save", !.r = r, !.df = df,
                                      !.ret = saved.ret, !.fault = fault,
                                      !.existed =
                                         (DOMAIN saved.dir = DOMAIN cacheDir)]
    /\ UNCHANGED << now, trackFile, dataFiles, pc, req, tracker, win,
                    cached_file, last, probe >>

LoadCachedData(r) ==
    /\ \E order \in Listings(cacheDir) :
         store' = [NoStore EXCEPT !.op = "load", !.r = r,
                      !.out = load_cached_data(cacheDir, order, r.latitude,
                                  r.longitude, r.days, r.start_date,
                                  r.end_date, now)]
    /\ UNCHANGED << now, trackFile, dataFiles, cacheDir, pc, req, tracker, win,
                    cached_file, last, ncalls, probe >>

NextCache ==
    \/ Tick
    \/ Jump
    \/ cleanup_old_files
    \/ \E r \in CacheRequests, df \in CacheFrames, fault \in SaveFaults :
         SaveCachedData(r, df, fault)
    \/ \E r \in CacheRequests : LoadCachedData(r)

SpecCache == Init /\ [][NextCache]_vars

(* ---------------------------- data tracker ---------------------------- *)

(* The DataTracker methods called on their own, each on a tracker          *)
(* constructed for the call as get_historical_data constructs its own.     *)

(* DataTracker(): load_tracking writes an empty index when there is none. *)
Constructed ==
    IF trackFile.state = "absent"
    THEN [state |-> "ok", idx |-> EmptyIndex, mtime |-> now]
    ELSE trackFile

(* df.to_csv(filename) followed by DataTracker().add_data_entry, as at     *)
(* nasa_data.py lines 146-154, for the window of request r.                *)
Track(r) ==
    /\ ncalls < MaxCalls
    /\ ncalls' = ncalls + 1
    /\ LET w == Window(r, now)
           filename == get_cached_filename(r.latitude, r.longitude,
                           w.actual_start_date, w.actual_end_date)
       IN /\ dataFiles' = [n \in DOMAIN dataFiles \cup {filename} |->
                             IF n = filename
                             THEN [rows |-> WindowRows(Date(w.actual_start_date),
                                                       Date(w.actual_end_date), now),
                                   ok |-> TRUE, mtime |-> now]
                             ELSE dataFiles[n]]
          /\ trackFile' = [state |-> "ok", mtime |-> now,
                           idx |-> add_data_entry(load_tracking, r.latitude,
                                       r.longitude, w.actual_start_date,
                                       w.actual_end_date, filename, now)]
          /\ store' = [NoStore EXCEPT !.op = "add", !.r = r, !.file = filename]
    /\ UNCHANGED << now, cacheDir, pc, req, tracker, win, cached_file, last,
                    probe >>

(* DataTracker().find_matching_data for the window of request r. *)
Find(r) ==
    /\ trackFile' = Constructed
    /\ LET w == Window(r, now) IN
       store' = [NoStore EXCEPT !.op = "find", !.r = r,
                    !.file = find_matching_data(load_tracking, dataFiles,
                                 r.latitude, r.longitude,
                                 w.actual_start_date, w.actual_end_date)]
    /\ UNCHANGED << now, dataFiles, cacheDir, pc, req, tracker, win,
                    cached_file, last, ncalls, probe >>

NextTracker ==
    \/ Tick
    \/ Jump
    \/ cleanup_old_files
    \/ \E r \in Requests : Track(r)
    \/ \E r \in Requests : Find(r)

SpecTracker == Init /\ [][NextTracker]_vars

(* ------------------------ request normalisation ----------------------- *)

(* Every combination of the optional arguments of get_historical_data. *)
AllRequests ==
    [latitude : Lats, longitude : Lons, days : DayCounts \cup {None},
     start_date : Days \cup {None}, end_date : Days \cup {None}]

(* get_historical_data lines 111-121: the tracker is constructed, then the *)
(* arguments are turned into a window.                                     *)
Normalize(r) ==
    /\ trackFile' = Constructed
    /\ store' = [NoStore EXCEPT !.op = "normalize", !.r = r,
                                !.norm = Normalized(r, now)]
    /\ UNCHANGED << now, dataFiles, cacheDir, pc, req, tracker, win,
                    cached_file, last, ncalls, probe >>

NextNorm ==
    \/ Tick
    \/ Jump
    \/ \E r \in AllRequests : Normalize(r)

SpecNorm == Init /\ [][NextNorm]_vars

(* --------------------------- weather cleaning -------------------------- *)

MaxRows == 2

(* Readings of a column: missing, the sentinel, and both sides of each     *)
(* bound the cleaning applies to it.                                       *)
Readings(col) ==
    {NaN, Sentinel} \cup
    CASE col = "T2M" -> {-51, -50, 60, 61}
      [] col = "RH2M" -> {-1, 0, 100, 101}
      [] col = "PRECTOTCORR" -> {-1, 0, 500, 501}
      [] col = "WD2M" -> {-1, 0, 360, 361}
      [] col = "WS2M" -> {0, 5}

(* Readings of the rows after the first: one the cleaning keeps and, for   *)
(* the wind speed, the sentinel, for the humidity, one out of bounds.      *)
LaterReadings(col) ==
    CASE col = "WS2M" -> {5, Sentinel}
      [] col = "RH2M" -> {100, 101}
      [] OTHER -> {0}

(* The rows over the columns cs: those a first row is drawn from, or      *)
(* those the later rows are drawn from.                                    *)
RowsOf(cs, first) ==
    LET R(col) == IF first THEN Readings(col) ELSE LaterReadings(col) IN
    { [c \in cs |-> CASE c = "T2M" -> t
                      [] c = "RH2M" -> rh
                      [] c = "WS2M" -> ws
                      [] c = "PRECTOTCORR" -> prec
                      [] c = "WD2M" -> wd] :
        t \in R("T2M"), rh \in R("RH2M"), ws \in R("WS2M"),
        prec \in R("PRECTOTCORR"), wd \in R("WD2M") }

(* The columns of a parsed response: the five parameters, or all but one. *)
ColumnSets == {Columns} \cup { Columns \ {c} : c \in Columns }

(* What fit_predict can do with n rows. *)
Detectors(n) ==
    [raised : {TRUE}, inliers : {{}}] \cup
    [raised : {FALSE}, inliers : SUBSET (0 .. n - 1)]

(* One call of clean_weather_data (line 98) on a table of n rows labelled  *)
(* from 0, as read_csv leaves them.                                        *)
CleanWeatherData(cs, n) ==
    /\ store.op = "none"
    /\ \E first \in RowsOf(cs, TRUE),
          later \in [1 .. n - 1 -> RowsOf(cs, FALSE)],
          detector \in Detectors(n) :
          LET df == [cols |-> cs,
                     rows |-> [i \in 0 .. n - 1 |->
                                 IF i = 0 THEN first ELSE later[i]]]
          IN store' = [NoStore EXCEPT !.op = "clean", !.table = df,
                                      !.cleaned = clean_weather_data(df, detector)]
    /\ UNCHANGED << now, trackFile, dataFiles, cacheDir, pc, req, tracker,
                    win, cached_file, last, ncalls, probe >>

NextClean == \E cs \in ColumnSets, n \in 0 .. MaxRows : CleanWeatherData(cs, n)

SpecClean == Init /\ [][NextClean]_vars

(* ----------------------------- index growth ---------------------------- *)

MaxGrowthCalls == 3

(* Requests of one location for a single day each. *)
GrowthRequests ==
    { r \in Requests : /\ r.latitude = 3266894
                       /\ IsRange(r) /\ r.start_date = r.end_date }

(* A call of get_historical_data, one of at most MaxGrowthCalls. *)
BeginGrowth(r) == ncalls < MaxGrowthCalls /\ Call(r)

NextGrowth ==
    \/ Tick
    \/ Jump
    \/ cleanup_old_files
    \/ \E r \in GrowthRequests : BeginGrowth(r)
    \/ Load
    \/ Miss

SpecGrowth == Init /\ [][NextGrowth]_vars

(* ============================ properties =============================== *)

Returned(c) == c.status = "returned"
NonEmpty(c) == Returned(c) /\ c.df.kind = "df" /\ c.df.rows # {}
Raised(c) == c.status \notin {"none", "returned"}
SameDates(w1, w2) ==
    /\ Date(w1.actual_start_date) = Date(w2.actual_start_date)
    /\ Date(w1.actual_end_date) = Date(w2.actual_end_date)

(* A call starts / returns or raises in this step. *)
Starts == pc = "idle" /\ pc' # "idle"
Ends == pc # "idle" /\ pc' = "idle"

(* The call (r, w) repeats the most recent completed call, which returned  *)
(* a non-empty dataset, while the payload that call read or wrote exists   *)
(* and on the same calendar dates.                                         *)
Repeat(r, w) ==
    /\ NonEmpty(last)
    /\ last.req = r
    /\ SameDates(last.win, w)
    /\ last.file \in DOMAIN dataFiles

(* C1 as stated: whatever the first call returned, an identical call       *)
(* within the freshness window (here: within the hour) is a cache hit with *)
(* the same dataset and the two calls make exactly one remote request.     *)
C1_ExactlyOneFetch ==
    [][ (Ends /\ last.status # "none" /\ last.req = req /\ IsFresh(last.at, now))
        => /\ Returned(last') /\ last'.hit
           /\ last'.df = last.df
           /\ last.fetches + last'.fetches = 1 ]_vars

(* C1 amended: if the first call returned a non-empty dataset, a call with *)
(* identical arguments made while the payload of the first still exists    *)
(* (and, for a day-count request, on the same calendar date) goes to the   *)
(* tracked payload, makes no remote request and returns cacheHit = true    *)
(* with a dataset equal to the first; the two calls together make at most  *)
(* one remote request.                                                     *)
C1_Idempotent ==
    [][ /\ (Starts /\ Repeat(req', win')) => pc' = "load"
        /\ (Ends /\ Repeat(req, win))
           => /\ Returned(last') /\ last'.hit
              /\ last'.df = last.df
              /\ last'.fetches = 0
              /\ last.fetches <= 1 ]_vars

(* A repeated request served from the single record its first call left. *)
C1_Witness ==
    /\ pc = "idle" /\ ncalls = 2
    /\ NonEmpty(last) /\ last.hit /\ last.fetches = 0
    /\ trackFile.state = "ok"
    /\ LET key == get_location_key(last.req.latitude, last.req.longitude) IN
       /\ DOMAIN trackFile.idx = {key}
       /\ LET ranges == trackFile.idx[key].data_ranges IN
          /\ Len(ranges) = 1
          /\ ranges[1].start_date = last.win.actual_start_date
          /\ ranges[1].end_date = last.win.actual_end_date
          /\ ranges[1].filename = last.file
          /\ last.file \in DOMAIN dataFiles
          /\ dataFiles[last.file].rows = last.df.rows

(* The index idx holds, for the location of r, a record whose dates cover  *)
(* the window w and whose payload is among files.                          *)
Tracked(idx, files, r, w) ==
    LET key == << Round4(r.latitude), Round4(r.longitude) >> IN
    /\ key \in DOMAIN idx
    /\ \E i \in 1 .. Len(idx[key].data_ranges) :
         LET A == idx[key].data_ranges[i] IN
         /\ Date(A.start_date) <= Date(w.actual_start_date)
         /\ Date(w.actual_end_date) <= Date(A.end_date)
         /\ A.filename \in DOMAIN files

(* C2 as stated: a request covered by a tracked range whose payload exists *)
(* is a cache hit without remote request, and every returned timestamp     *)
(* lies between the instants B.start and B.end of the requested window.    *)
C2_WithinInstants ==
    [][ /\ (Starts /\ trackFile.state = "ok"
                   /\ Tracked(trackFile.idx, dataFiles, req', win'))
           => pc' = "load"
        /\ (Ends /\ pc = "load" /\ cached_file \in DOMAIN dataFiles)
           => /\ Returned(last') /\ last'.hit /\ last'.fetches = 0
              /\ \A t \in last'.df.rows :
                   win.actual_start_date <= t /\ t <= win.actual_end_date ]_vars

(* C2 amended: such a request is a cache hit without remote request, and   *)
(* every returned timestamp falls on a calendar date between the date of   *)
(* B.start and the date of B.end (for an explicit date range that is the   *)
(* window [start 00:00, end 23:59]; a day-count window starts and ends     *)
(* within a day, and the rows of the whole first and last day are kept).   *)
C2_WithinDates ==
    [][ /\ (Starts /\ trackFile.state = "ok"
                   /\ Tracked(trackFile.idx, dataFiles, req', win'))
           => pc' = "load"
        /\ (Ends /\ pc = "load" /\ cached_file \in DOMAIN dataFiles)
           => /\ Returned(last') /\ last'.hit /\ last'.fetches = 0
              /\ \A t \in last'.df.rows :
                   /\ Date(win.actual_start_date) <= Date(t)
                   /\ Date(t) <= Date(win.actual_end_date)
              /\ IsRange(req) =>
                   \A t \in last'.df.rows :
                     win.actual_start_date <= t /\ t <= win.actual_end_date ]_vars

(* A hit on a payload that holds more than the requested window. *)
C2_Witness ==
    /\ pc = "idle" /\ NonEmpty(last) /\ last.hit
    /\ last.file \in DOMAIN dataFiles
    /\ dataFiles[last.file].rows # last.df.rows
    /\ last.win.actual_start_date <= last.win.actual_end_date

(* The completed call went through lines 138-156 (the tracker missed). *)
MissPath(c) == c.status = "RemoteException" \/ (Returned(c) /\ ~c.hit)

Dist(x, y) == IF x < y THEN y - x ELSE x - y
CloseEach(a, b) == Dist(a[1], b[1]) < 10 /\ Dist(a[2], b[2]) < 10
FarSome(a, b) == Dist(a[1], b[1]) >= 100 \/ Dist(a[2], b[2]) >= 100
SameDecimals(a, b) ==
    /\ (a[1] + 5) \div 10 = (b[1] + 5) \div 10
    /\ (a[2] + 5) \div 10 = (b[2] + 5) \div 10

(* C4 as stated: in all three places, locations less than 0.0001 degrees   *)
(* apart in each coordinate are the same key and locations 0.001 degrees   *)
(* or more apart in some coordinate are different keys.                    *)
C4_Tolerance ==
    probe.phase = "done" =>
      /\ CloseEach(probe.a, probe.b)
           => probe.same_key /\ probe.same_cache_key /\ probe.same_match
      /\ FarSome(probe.a, probe.b)
           => ~probe.same_key /\ ~probe.same_cache_key /\ ~probe.same_match

(* C4 amended: locations 0.001 degrees or more apart in some coordinate    *)
(* are different in all three places; get_location_key and get_cache_key   *)
(* give two locations the same key exactly when both coordinates format to *)
(* the same 4 decimals, which implies that they are less than 0.0001       *)
(* degrees apart but is not implied by it; find_matching_cache alone       *)
(* treats every pair less than 0.0001 degrees apart as the same location.  *)
C4_Rounding ==
    probe.phase = "done" =>
      /\ FarSome(probe.a, probe.b)
           => ~probe.same_key /\ ~probe.same_cache_key /\ ~probe.same_match
      /\ probe.same_key <=> SameDecimals(probe.a, probe.b)
      /\ probe.same_cache_key <=> SameDecimals(probe.a, probe.b)
      /\ probe.same_key => CloseEach(probe.a, probe.b)
      /\ CloseEach(probe.a, probe.b) => probe.same_match

(* Two different locations that all three places treat as one. *)
C4_Witness ==
    /\ probe.phase = "done" /\ probe.a # probe.b
    /\ probe.same_key /\ probe.same_cache_key /\ probe.same_match

(* C5: a call that issued a remote request returns to its caller (with     *)
(* cacheHit = false), whatever the outcome of the request.                 *)
C5_NeverRaises == last.fetches > 0 => Returned(last) /\ ~last.hit

(* C6: no call ends with the exception of an unparseable tracking.json or  *)
(* of an unreadable tracked payload.                                       *)
C6_NoCacheIOError == last.status \notin {"JSONDecodeError", "ParserError"}

(* C7: no call ends with the exception of a tracked payload that was       *)
(* removed between the tracker lookup and the load.                        *)
C7_EvictionIsMiss == last.status # "FileNotFoundError"

(* C8: a call for a window start <= end never returns an empty dataset     *)
(* with cacheHit = true.                                                   *)
C8_NoEmptyHit ==
    (Returned(last) /\ last.hit
       /\ last.win.actual_start_date <= last.win.actual_end_date)
    => last.df.rows # {}

(* C9: a miss whose fetch yields a non-empty dataset writes the payload    *)
(* under its storage reference, leaves an index that is the one the call   *)
(* loaded plus one record for the requested window with that reference,    *)
(* returns (dataset, false), and find_matching_data for the same location  *)
(* and window then returns that reference.                                 *)
C9_SuccessfulMiss ==
    [][ (Ends /\ pc = "fetch" /\ NonEmpty(last'))
        => LET f == get_cached_filename(req.latitude, req.longitude,
                        win.actual_start_date, win.actual_end_date)
               key == get_location_key(req.latitude, req.longitude)
               old == IF key \in DOMAIN tracker
                      THEN tracker[key].data_ranges ELSE << >>
               idx == trackFile'.idx
           IN /\ ~last'.hit
              /\ f \in DOMAIN dataFiles'
              /\ dataFiles'[f].rows = last'.df.rows
              /\ trackFile'.state = "ok"
              /\ DOMAIN idx = DOMAIN tracker \cup {key}
              /\ \A k \in DOMAIN tracker : k # key => idx[k] = tracker[k]
              /\ Len(idx[key].data_ranges) = Len(old) + 1
              /\ SubSeq(idx[key].data_ranges, 1, Len(old)) = old
              /\ LET new == idx[key].data_ranges[Len(old) + 1] IN
                 /\ new.start_date = win.actual_start_date
                 /\ new.end_date = win.actual_end_date
                 /\ new.filename = f
              /\ find_matching_data(idx, dataFiles', req.latitude, req.longitude,
                     win.actual_start_date, win.actual_end_date) = f ]_vars

(* A successful miss that added a second record to its location. *)
C9_Witness ==
    /\ pc = "idle" /\ NonEmpty(last) /\ ~last.hit /\ last.fetches = 1
    /\ trackFile.state = "ok"
    /\ LET key == get_location_key(last.req.latitude, last.req.longitude) IN
       /\ key \in DOMAIN trackFile.idx
       /\ Len(trackFile.idx[key].data_ranges) = 2
       /\ trackFile.idx[key].data_ranges[2].filename = last.file
       /\ last.file \in DOMAIN dataFiles

(* C10: right after a call that fetched a non-empty dataset,               *)
(* load_cached_data for the same location and range finds a cache entry.   *)
C10_EntryCreated ==
    (pc = "idle" /\ NonEmpty(last) /\ ~last.hit /\ last.fetches = 1
       /\ last.at = now)
    => load_cached_data_found(cacheDir, last.req.latitude, last.req.longitude,
           last.req.days,
           IF IsRange(last.req) THEN last.win.actual_start_date ELSE None,
           IF IsRange(last.req) THEN last.win.actual_end_date ELSE None,
           now)



(* The fingerprint of a cache request: the location formatted to 4         *)
(* decimals with the dates of the range, or with the day count.            *)
Fingerprint(r) ==
    IF r.start_date # None /\ r.end_date # None
    THEN << (r.latitude + 5) \div 10, (r.longitude + 5) \div 10,
            r.start_date \div TicksPerDay, r.end_date \div TicksPerDay >>
    ELSE << (r.latitude + 5) \div 10, (r.longitude + 5) \div 10, r.days >>

(* What is stored under a fingerprint: the payload and the metadata. *)
Content(entry) == << entry.rows, entry.csv, entry.json, entry.meta >>

C12_FailedMissUnchanged ==
    [][ (Ends /\ pc = "fetch" /\ last'.fetches = 1 /\ ~NonEmpty(last'))
        => /\ Returned(last') /\ ~last'.hit /\ last'.df = NoResult
           /\ trackFile' = trackFile
           /\ dataFiles' = dataFiles ]_vars

(* The records the tracking file holds for the location of request r. *)
RecordsOf(file, r) ==
    LET key == << (r.latitude + 5) \div 10, (r.longitude + 5) \div 10 >> IN
    IF file.state = "ok" /\ key \in DOMAIN file.idx
    THEN file.idx[key].data_ranges ELSE << >>

(* The record covers the window w at date granularity and its file exists. *)
Serves(record, w, files) ==
    /\ record.start_date \div TicksPerDay <= w.actual_start_date \div TicksPerDay
    /\ record.end_date \div TicksPerDay >= w.actual_end_date \div TicksPerDay
    /\ record.filename \in DOMAIN files

(* C13: find_matching_data returns the storage reference of the first      *)
(* record, in insertion order, of the location's list that covers the      *)
(* requested range at date granularity and whose file exists, skipping the *)
(* records whose file is missing, and None iff no record does both.        *)
C13_FirstCoveringExisting ==
    [][ (store' # store /\ store'.op = "find")
        => LET ranges == RecordsOf(trackFile, store'.r)
               w == Window(store'.r, now)
               good == { i \in 1 .. Len(ranges) : Serves(ranges[i], w, dataFiles) }
           IN IF good = {}
              THEN store'.file = NoFile
              ELSE \E i \in good :
                     /\ \A j \in good : i <= j
                     /\ store'.file = ranges[i].filename ]_vars

(* A lookup that skipped a covering record whose file is gone and returned *)
(* the reference of the next one.                                          *)
C13_Witness ==
    /\ store.op = "find"
    /\ LET ranges == RecordsOf(trackFile, store.r)
           w == Window(store.r, now)
       IN /\ Len(ranges) = 2
          /\ ranges[1].start_date \div TicksPerDay <= w.actual_start_date \div TicksPerDay
          /\ ranges[1].end_date \div TicksPerDay >= w.actual_end_date \div TicksPerDay
          /\ ranges[1].filename \notin DOMAIN dataFiles
          /\ Serves(ranges[2], w, dataFiles)
          /\ store.file = ranges[2].filename

(* C14: add_data_entry appends one record to the list of the location     *)
(* (creating the list if there is none) and persists the whole index: the  *)
(* tracking file then holds, for that location, the records it held before *)
(* followed by the new one, and for every other location what it held.     *)
C14_Durable ==
    [][ (ncalls' = ncalls + 1 /\ store'.op = "add")
        => LET r == store'.r
               w == Window(r, now)
               old == RecordsOf(trackFile, r)
               new == RecordsOf(trackFile', r)
               key == << (r.latitude + 5) \div 10, (r.longitude + 5) \div 10 >>
               before == IF trackFile.state = "ok" THEN trackFile.idx ELSE EmptyIndex
           IN /\ trackFile'.state = "ok"
              /\ DOMAIN trackFile'.idx = DOMAIN before \cup {key}
              /\ \A k \in DOMAIN before : k # key => trackFile'.idx[k] = before[k]
              /\ Len(new) = Len(old) + 1
              /\ SubSeq(new, 1, Len(old)) = old
              /\ new[Len(new)].start_date = w.actual_start_date
              /\ new[Len(new)].end_date = w.actual_end_date
              /\ new[Len(new)].filename = store'.file ]_vars

(* An entry added behind a record of an earlier call. *)
C14_Witness ==
    /\ store.op = "add" /\ ncalls = 2
    /\ LET ranges == RecordsOf(trackFile, store.r) IN
       /\ Len(ranges) = 2
       /\ ranges[2].filename = store.file
       /\ ranges[1].filename # store.file

(* C15: no step of get_historical_data, add_data_entry or                  *)
(* find_matching_data removes, reorders or rewrites a record: whenever the *)
(* tracking file exists before and after a step, the list of every         *)
(* location before the step is a prefix of its list after it.              *)
C15_AppendOnly ==
    [][ (trackFile.state = "ok" /\ trackFile'.state = "ok")
        => \A k \in DOMAIN trackFile.idx :
             /\ k \in DOMAIN trackFile'.idx
             /\ Len(trackFile.idx[k].data_ranges)
                  <= Len(trackFile'.idx[k].data_ranges)
             /\ SubSeq(trackFile'.idx[k].data_ranges, 1,
                       Len(trackFile.idx[k].data_ranges))
                  = trackFile.idx[k].data_ranges ]_vars

(* A location whose list has grown to two different records. *)
C15_Witness ==
    /\ pc = "idle" /\ trackFile.state = "ok"
    /\ \E k \in DOMAIN trackFile.idx :
         /\ Len(trackFile.idx[k].data_ranges) = 2
         /\ trackFile.idx[k].data_ranges[1] # trackFile.idx[k].data_ranges[2]

(* C16: save_cached_data returns to its caller whatever happens: False    *)
(* when an exception left its try block (while sorting, writing the        *)
(* payload or writing the metadata), True otherwise, and True only when    *)
(* the payload and the metadata of the call are both on disk.              *)
C16_SaveNeverRaises ==
    [][ (ncalls' = ncalls + 1 /\ store'.op = "save")
        => LET k == Fingerprint(store'.r) IN
           /\ store'.ret \in BOOLEAN
           /\ store'.fault # "none" => ~store'.ret
           /\ store'.fault = "none" => store'.ret
           /\ store'.ret
                => /\ k \in DOMAIN cacheDir'
                   /\ cacheDir'[k].csv = "ok" /\ cacheDir'[k].rows = store'.df
                   /\ cacheDir'[k].json = "ok"
                   /\ cacheDir'[k].meta.latitude = store'.r.latitude
                   /\ cacheDir'[k].meta.longitude = store'.r.longitude
                   /\ cacheDir'[k].meta.days = store'.r.days
                   /\ cacheDir'[k].meta.timestamp = now ]_vars

(* A save that failed while writing the metadata, after the payload. *)
C16_Witness ==
    /\ store.op = "save" /\ ~store.ret /\ store.fault = "json_dump"
    /\ Fingerprint(store.r) \in DOMAIN cacheDir
    /\ cacheDir[Fingerprint(store.r)].csv = "ok"
    /\ cacheDir[Fingerprint(store.r)].json = "corrupt"

(* A load_cached_data call returns in this step. *)
Loads == store' # store /\ store'.op = "load"

(* The entry has metadata that parses, for a location within 0.0001        *)
(* degrees of the request r in each coordinate, whose date range covers    *)
(* the range of r at date granularity.                                     *)
Matches(entry, r) ==
    /\ entry.json = "ok"
    /\ Dist(entry.meta.latitude, r.latitude) < 10
    /\ Dist(entry.meta.longitude, r.longitude) < 10
    /\ entry.meta.range_start # None
    /\ entry.meta.range_start \div TicksPerDay <= r.start_date \div TicksPerDay
    /\ entry.meta.range_end \div TicksPerDay >= r.end_date \div TicksPerDay

InWindow(rows, r) ==
    { t \in rows : /\ t \div TicksPerDay >= r.start_date \div TicksPerDay
                   /\ t \div TicksPerDay <= r.end_date \div TicksPerDay }

(* C17 as stated: for an explicit range that some stored metadata record   *)
(* matches and covers, the dataset load_cached_data returns is non-empty   *)
(* and every row of it has its date in [start, end].                       *)
C17_CoverageFiltered ==
    [][ (Loads /\ IsRange(store'.r) /\ store'.out.kind = "df"
           /\ \E k \in DOMAIN cacheDir : Matches(cacheDir[k], store'.r))
        => /\ store'.out.rows # {}
           /\ InWindow(store'.out.rows, store'.r) = store'.out.rows ]_vars

(* C17 amended: for an explicit range, load_cached_data takes the first    *)
(* metadata record in directory order that matches the location within     *)
(* tolerance and covers the range; if the rows of its payload inside the   *)
(* window are not none, it returns exactly those rows with that record's   *)
(* metadata.  That is what happens whenever every metadata file parses,    *)
(* every payload is readable and every matching record has rows inside the *)
(* window.  Otherwise (the first match has no row inside the window, or    *)
(* the scan raised) it goes on to the exact-fingerprint lookup, which      *)
(* returns nothing or the whole payload of that entry, unfiltered and      *)
(* possibly empty.                                                         *)
C17_CoverageOrExact ==
    [][ (Loads /\ IsRange(store'.r))
        => LET r == store'.r
               out == store'.out
               matching == { k \in DOMAIN cacheDir : Matches(cacheDir[k], r) }
               clean == \A k \in DOMAIN cacheDir :
                          /\ cacheDir[k].json = "ok" /\ cacheDir[k].csv = "ok"
                          /\ cacheDir[k].meta.range_start # None
           IN /\ out.path = "coverage"
                => /\ out.kind = "df" /\ out.meta \in matching
                   /\ out.rows = InWindow(cacheDir[out.meta].rows, r)
                   /\ out.rows # {}
              /\ (clean /\ matching # {}
                    /\ \A k \in matching : InWindow(cacheDir[k].rows, r) # {})
                => out.path = "coverage"
              /\ (out.kind = "df" /\ out.path # "coverage")
                => /\ out.meta = Fingerprint(r)
                   /\ out.rows = cacheDir[Fingerprint(r)].rows ]_vars

(* A range served through the coverage scan from the entry of another      *)
(* fingerprint, saved for a location within tolerance, whose payload holds *)
(* more than the window.                                                   *)
C17_Witness ==
    /\ store.op = "load" /\ IsRange(store.r)
    /\ store.out.path = "coverage" /\ store.out.rows # {}
    /\ store.out.meta \in DOMAIN cacheDir
    /\ store.out.meta # Fingerprint(store.r)
    /\ cacheDir[store.out.meta].meta.latitude # store.r.latitude
    /\ cacheDir[store.out.meta].rows # store.out.rows
    /\ Cardinality(DOMAIN cacheDir) = 1

(* The entry stored under the fingerprint of r, with both files readable. *)
Readable(dir, r) ==
    /\ Fingerprint(r) \in DOMAIN dir
    /\ dir[Fingerprint(r)].csv = "ok"
    /\ dir[Fingerprint(r)].json = "ok"

(* Hours since the entry of r was saved. *)
AgeHours(dir, r) ==
    ((now - dir[Fingerprint(r)].meta.timestamp) * 24) \div TicksPerDay

(* C18: the exact-fingerprint lookup of load_cached_data returns nothing   *)
(* for an entry saved more than max_age_hours (24) ago, and returns the    *)
(* entry (its payload and its metadata) when its age is at most 24 hours.  *)
C18_StaleRejected ==
    [][ (Loads /\ store'.out.path # "coverage" /\ Readable(cacheDir, store'.r))
        => IF AgeHours(cacheDir, store'.r) > 24
           THEN store'.out.kind = "none"
           ELSE /\ store'.out.kind = "df"
                /\ store'.out.meta = Fingerprint(store'.r)
                /\ store'.out.rows = cacheDir[Fingerprint(store'.r)].rows ]_vars

(* A readable entry that was not returned, being older than 24 hours. *)
C18_Witness ==
    /\ store.op = "load" /\ ~IsRange(store.r)
    /\ store.out.kind = "none" /\ ~store.out.raised
    /\ Readable(cacheDir, store.r)
    /\ AgeHours(cacheDir, store.r) > 24

(* C19 as stated: a load_cached_data call during which the coverage scan   *)
(* or the exact-fingerprint lookup met an I/O or parse error returns       *)
(* (None, None).                                                           *)
C19_ErrorIsAbsent ==
    [][ (Loads /\ (store'.out.scan_raised \/ store'.out.raised))
        => store'.out.kind = "none" ]_vars

(* C19 amended: load_cached_data never raises.  An error in the            *)
(* exact-fingerprint lookup (metadata that does not parse, a payload that  *)
(* cannot be read) yields (None, None).  An error during the coverage scan *)
(* only ends the scan as if nothing matched: the exact-fingerprint lookup  *)
(* still runs and the call returns what that lookup gives, (None, None) or *)
(* the fresh entry stored under the fingerprint.                           *)
C19_NeverRaises ==
    [][ Loads
        => LET r == store'.r
               out == store'.out
               k == Fingerprint(r)
           IN /\ out.kind \in {"df", "none"}
              /\ out.raised => out.kind = "none"
              /\ (out.path # "coverage" /\ k \in DOMAIN cacheDir
                    /\ (cacheDir[k].json = "corrupt" \/ cacheDir[k].csv = "corrupt"))
                   => out.kind = "none"
              /\ out.scan_raised
                   => /\ out.path # "coverage"
                      /\ \E j \in DOMAIN cacheDir :
                           \/ cacheDir[j].json = "corrupt"
                           \/ cacheDir[j].csv = "corrupt"
                           \/ (cacheDir[j].json = "ok"
                                 /\ cacheDir[j].meta.range_start = None)
                      /\ out.kind = "df" <=> (Readable(cacheDir, r)
                                                /\ AgeHours(cacheDir, r) <= 24)
                      /\ out.kind = "df"
                           => /\ out.meta = k
                              /\ out.rows = cacheDir[k].rows ]_vars

(* A call whose scan and whose lookup both met a file they could not       *)
(* parse, and which returned (None, None).                                 *)
C19_Witness ==
    /\ store.op = "load" /\ IsRange(store.r)
    /\ store.out.scan_raised /\ store.out.raised
    /\ store.out.kind = "none"
    /\ Fingerprint(store.r) \in DOMAIN cacheDir

(* C20: a call whose end date is before its start date ends with an error *)
(* raised to its caller, without serving a tracked payload and without any *)
(* remote request.                                                         *)
C20_InvertedRejected ==
    (IsRange(last.req) /\ last.req.end_date < last.req.start_date)
    => /\ last.fetches = 0
       /\ ~last.hit
       /\ Raised(last)

(* C21: with a start and an end date the call goes on with the day count  *)
(* end - start + 1 and the window [start 00:00, end 23:59], whatever day   *)
(* count was passed; otherwise with the window [now - days, now]; with     *)
(* neither a day count nor both dates it raises before any lookup.         *)
C21_Normalization ==
    [][ (store' # store /\ store'.op = "normalize")
        => LET r == store'.r
               n == store'.norm
           IN IF r.start_date # None /\ r.end_date # None
              THEN /\ n.status = "ok"
                   /\ n.days = r.end_date - r.start_date + 1
                   /\ n.win.actual_start_date = r.start_date * TicksPerDay
                   /\ n.win.actual_end_date = r.end_date * TicksPerDay
                                                + (TicksPerDay - 1)
              ELSE IF r.days # None
              THEN /\ n.status = "ok"
                   /\ n.days = r.days
                   /\ n.win.actual_start_date = now - r.days * TicksPerDay
                   /\ n.win.actual_end_date = now
              ELSE n.status = "TypeError" ]_vars

(* A request with both a range and a day count, normalised to the range. *)
C21_Witness ==
    /\ store.op = "normalize" /\ store.norm.status = "ok"
    /\ store.r.days # None /\ store.r.start_date # None /\ store.r.end_date # None
    /\ store.r.start_date < store.r.end_date
    /\ store.norm.days = 2 /\ store.norm.days # store.r.days

(* C22: every row clean_weather_data returns has its humidity in          *)
(* [0, 100], its temperature in [-50, 60], its precipitation in [0, 500]   *)
(* and, where the table has the column, its wind direction in [0, 360],    *)
(* whichever rows the outlier detector keeps.                              *)
C22_CleaningBounds ==
    [][ (store' # store /\ store'.op = "clean" /\ store'.cleaned.status = "ok")
        => LET out == store'.cleaned.df
           IN \A i \in DOMAIN out.rows :
                 /\ "RH2M" \in out.cols
                      => out.rows[i]["RH2M"] >= 0 /\ out.rows[i]["RH2M"] <= 100
                 /\ "T2M" \in out.cols
                      => out.rows[i]["T2M"] >= -50 /\ out.rows[i]["T2M"] <= 60
                 /\ "PRECTOTCORR" \in out.cols
                      => /\ out.rows[i]["PRECTOTCORR"] >= 0
                         /\ out.rows[i]["PRECTOTCORR"] <= 500
                 /\ "WD2M" \in out.cols
                      => out.rows[i]["WD2M"] >= 0 /\ out.rows[i]["WD2M"] <= 360 ]_vars

(* A table of two rows that the detector keeps both, one with a humidity   *)
(* above 100: the cleaning returns the other one alone, readings on the    *)
(* bounds included.                                                        *)
C22_Witness ==
    /\ store.op = "clean" /\ store.cleaned.status = "ok"
    /\ store.table.cols = Columns
    /\ DOMAIN store.table.rows = {0, 1}
    /\ store.table.rows[1]["RH2M"] = 101
    /\ DOMAIN store.cleaned.df.rows = {0}
    /\ store.cleaned.df.rows[0]["RH2M"] = 100
    /\ store.cleaned.df.rows[0]["T2M"] = -50
    /\ store.cleaned.df.rows[0]["PRECTOTCORR"] = 500
    /\ store.cleaned.df.rows[0]["WD2M"] = 360

(* C23: no row clean_weather_data returns has a missing value in a        *)
(* parameter column, the sentinel -999 counting as missing like NaN, in    *)
(* the wind speed as in the other columns.                                 *)
C23_NoMissing ==
    [][ (store' # store /\ store'.op = "clean" /\ store'.cleaned.status = "ok")
        => LET out == store'.cleaned.df
           IN \A i \in DOMAIN out.rows : \A c \in out.cols :
                 out.rows[i][c] # NaN /\ out.rows[i][c] # -999 ]_vars

(* The entries of dir that match r and were saved more than 24 hours ago. *)
StaleMatches(dir, r) ==
    { k \in DOMAIN dir :
        /\ Matches(dir[k], r)
        /\ (now - dir[k].meta.timestamp) * 24 > 24 * TicksPerDay }

(* C24 as stated: for an explicit range, an entry older than 24 hours that *)
(* covers the range is returned through the coverage scan, and only        *)
(* day-count requests are refused an entry for its age.                    *)
C24_OnlyDayCountsGated ==
    [][ (Loads /\ IsRange(store'.r) /\ StaleMatches(cacheDir, store'.r) # {}
           /\ \A k \in DOMAIN cacheDir :
                 cacheDir[k].json = "ok" /\ cacheDir[k].csv = "ok")
        => store'.out.kind = "df" /\ store'.out.path = "coverage" ]_vars

(* C24 amended: the coverage scan applies no age check.  For an explicit  *)
(* range, when every file is readable, every record has a date range, and  *)
(* the matching records, all older than 24 hours, each have rows inside the *)
(* range, load_cached_data returns                                          *)
(* the rows of one of them through the scan.  The exact-fingerprint lookup  *)
(* is what refuses an entry for its age, and not to day-count requests      *)
(* only: a range request reaches it when the scan found no record, raised,  *)
(* or found a record without a row inside the range.  So any dataset        *)
(* returned from an entry older than 24 hours was returned by the scan, for *)
(* an explicit range.                                                       *)
C24_CoverageUngated ==
    [][ Loads
        => LET r == store'.r
               out == store'.out
               stale == IF IsRange(r) THEN StaleMatches(cacheDir, r) ELSE {}
               matching == { k \in DOMAIN cacheDir :
                               IsRange(r) /\ Matches(cacheDir[k], r) }
           IN /\ ( /\ IsRange(r) /\ stale # {} /\ stale = matching
                   /\ \A k \in DOMAIN cacheDir :
                         /\ cacheDir[k].json = "ok" /\ cacheDir[k].csv = "ok"
                         /\ cacheDir[k].meta.range_start # None
                   /\ \A k \in stale : InWindow(cacheDir[k].rows, r) # {} )
                 => /\ out.kind = "df" /\ out.path = "coverage"
                    /\ out.meta \in stale
              /\ ( /\ out.kind = "df"
                   /\ (now - cacheDir[out.meta].meta.timestamp) * 24
                        > 24 * TicksPerDay )
                 => out.path = "coverage" /\ IsRange(r) ]_vars

(* An entry older than 24 hours returned for a range through the scan,     *)
(* under the very fingerprint of the request.                              *)
C24_Witness ==
    /\ store.op = "load" /\ IsRange(store.r)
    /\ store.out.kind = "df" /\ store.out.path = "coverage"
    /\ store.out.meta = Fingerprint(store.r)
    /\ store.out.meta \in DOMAIN cacheDir
    /\ AgeHours(cacheDir, store.r) > 24

(* C25: a call that returns cacheHit = true made no remote request, and   *)
(* neither of its two steps (the lookup that found the record, the load of *)
(* the payload) wrote a payload file or changed the tracking file.         *)
C25_HitHasNoEffect ==
    [][ /\ (Starts /\ pc' = "load")
           => trackFile' = trackFile /\ dataFiles' = dataFiles
        /\ (Ends /\ last'.hit)
           => /\ pc = "load"
              /\ last'.fetches = 0
              /\ trackFile' = trackFile /\ dataFiles' = dataFiles ]_vars

(* A hit some time after the miss that wrote the record and the payload,   *)
(* both as that miss left them.                                            *)
C25_Witness ==
    /\ pc = "idle" /\ NonEmpty(last) /\ last.hit
    /\ trackFile.state = "ok" /\ trackFile.mtime < last.at
    /\ last.file \in DOMAIN dataFiles
    /\ dataFiles[last.file].mtime = trackFile.mtime
    /\ Tracked(trackFile.idx, dataFiles, last.req, last.win)

(* The records of idx under the 4-decimal key of r whose start date is at *)
(* or before the date w starts on and whose end date is at or after the    *)
(* date w ends on.                                                         *)
CoveringRecords(idx, r, w) ==
    LET key == << (r.latitude + 5) \div 10, (r.longitude + 5) \div 10 >> IN
    IF key \notin DOMAIN idx THEN {}
    ELSE { idx[key].data_ranges[i] : i \in
             { j \in 1 .. Len(idx[key].data_ranges) :
                 /\ idx[key].data_ranges[j].start_date \div TicksPerDay
                      <= w.actual_start_date \div TicksPerDay
                 /\ idx[key].data_ranges[j].end_date \div TicksPerDay
                      >= w.actual_end_date \div TicksPerDay } }

(* C26: a call returns cacheHit = true only through a lookup that found,   *)
(* in the tracking file as it was then, a record under the request's       *)
(* 4-decimal location key with start date <= the requested start date and  *)
(* end date >= the requested end date, whose payload file existed then;    *)
(* the payload it returns rows of is that record's.                        *)
C26_HitSound ==
    [][ /\ (Starts /\ pc' = "load")
           => /\ trackFile.state = "ok"
              /\ \E A \in CoveringRecords(trackFile.idx, req', win') :
                    /\ A.filename \in DOMAIN dataFiles
                    /\ A.filename = cached_file'
        /\ (Ends /\ last'.hit)
           => /\ pc = "load"
              /\ \E A \in CoveringRecords(tracker, req, win) :
                    A.filename = cached_file /\ last'.file = A.filename ]_vars

(* A hit on a record that covers more than the requested window. *)
C26_Witness ==
    /\ pc = "idle" /\ last.hit /\ NonEmpty(last)
    /\ trackFile.state = "ok"
    /\ \E A \in CoveringRecords(trackFile.idx, last.req, last.win) :
          /\ A.filename = last.file
          /\ A.start_date \div TicksPerDay
               < last.win.actual_start_date \div TicksPerDay

(* The number of records in the tracking file. *)
RECURSIVE CountRecords(_, _)
CountRecords(idx, keys) ==
    IF keys = {} THEN 0
    ELSE LET k == CHOOSE x \in keys : TRUE
         IN Len(idx[k].data_ranges) + CountRecords(idx, keys \ {k})

TotalRecords(file) ==
    IF file.state = "ok" THEN CountRecords(file.idx, DOMAIN file.idx) ELSE 0

(* C27: the tracking file starts without records, and as long as it is not *)
(* deleted the only step that changes its number of records is the return  *)
(* of a call that missed and obtained a non-empty dataset, which adds one   *)
(* record after those of its location and leaves these as they were: the   *)
(* number of records is the number of such calls.  A miss for a window     *)
(* whose record lost its payload adds a second record for that window.     *)
C27_IndexGrowth ==
    [][ LET deleted == trackFile.state # "absent" /\ trackFile'.state = "absent"
            lost == pc # "idle" /\ trackFile.state = "absent"
            grows == Ends /\ ~last'.hit /\ last'.status = "returned"
                          /\ last'.df.kind = "df" /\ last'.df.rows # {}
        IN /\ ncalls = 0 => TotalRecords(trackFile) = 0
           /\ (~deleted /\ ~lost)
                => /\ TotalRecords(trackFile')
                        = TotalRecords(trackFile) + (IF grows THEN 1 ELSE 0)
                   /\ trackFile.state = "ok"
                        => /\ DOMAIN trackFile.idx \subseteq DOMAIN trackFile'.idx
                           /\ \A k \in DOMAIN trackFile.idx :
                                SubSeq(trackFile'.idx[k].data_ranges, 1,
                                       Len(trackFile.idx[k].data_ranges))
                                  = trackFile.idx[k].data_ranges ]_vars

(* After its payload was removed, a window fetched again and tracked by a  *)
(* second record, behind the first.                                        *)
C27_Witness ==
    /\ pc = "idle" /\ ncalls = 3 /\ NonEmpty(last) /\ ~last.hit
    /\ last.fetches = 1 /\ trackFile.state = "ok"
    /\ TotalRecords(trackFile) = 3
    /\ \E k \in DOMAIN trackFile.idx :
         LET ranges == trackFile.idx[k].data_ranges IN
         /\ Len(ranges) = 3
         /\ ranges[1].start_date = ranges[3].start_date
         /\ ranges[1].end_date = ranges[3].end_date
         /\ ranges[1].downloaded_at < ranges[3].downloaded_at
         /\ ranges[3].start_date = last.win.actual_start_date

(* The file get_weather_data keeps for the window w of the request r: it  *)
(* is named by the dates of the window and the coordinates as given.       *)
OwnFile(r, w) ==
    << w.actual_start_date \div TicksPerDay, w.actual_end_date \div TicksPerDay,
       r.latitude, r.longitude >>

DayRepeat(r) ==
    /\ ~IsRange(r) /\ last.req = r
    /\ NonEmpty(last) /\ ~last.hit

(* C29 as stated: a later identical day-count request is covered by the    *)
(* record of the first exactly when it is made on the same calendar date;  *)
(* made on a later date it is a miss that fetches again and appends a new  *)
(* record.                                                                 *)
C29_RepeatAppends ==
    [][ /\ (Starts /\ DayRepeat(req') /\ last.file \in DOMAIN dataFiles)
           => (pc' = "load" <=> now \div TicksPerDay = last.at \div TicksPerDay)
        /\ (Ends /\ pc = "fetch" /\ DayRepeat(req) /\ trackFile.state = "ok"
              /\ now \div TicksPerDay > last.at \div TicksPerDay)
           => /\ last'.fetches = 1
              /\ TotalRecords(trackFile') = TotalRecords(trackFile) + 1 ]_vars

(* The records of idx, for the location of r, that a day-count request of  *)
(* r.days days left at an instant up to now.                               *)
DayRecords(idx, r) ==
    LET key == << (r.latitude + 5) \div 10, (r.longitude + 5) \div 10 >> IN
    IF key \notin DOMAIN idx THEN {}
    ELSE { idx[key].data_ranges[i] : i \in
             { j \in 1 .. Len(idx[key].data_ranges) :
                 /\ idx[key].data_ranges[j].end_date
                      - idx[key].data_ranges[j].start_date = r.days * TicksPerDay
                 /\ idx[key].data_ranges[j].end_date <= now } }

(* C29 amended: a record created by a day-count request at instant t       *)
(* covers a later identical day-count request at instant t' iff t' falls   *)
(* on the same calendar date as t; then, if the payload exists, the        *)
(* request is a hit.  On a later calendar date than every record of the    *)
(* location ends on, the request is a miss; it makes one remote request    *)
(* unless get_weather_data has a fresh file for the new dates, and it      *)
(* appends a new record for the new window if and only if it obtains a     *)
(* non-empty dataset.                                                      *)
C29_CalendarBoundary ==
    [][ /\ (Starts /\ ~IsRange(req') /\ trackFile.state = "ok")
           => LET key == << (req'.latitude + 5) \div 10,
                            (req'.longitude + 5) \div 10 >>
              IN /\ \A A \in DayRecords(trackFile.idx, req') :
                      /\ A \in CoveringRecords(trackFile.idx, req', win')
                           <=> now \div TicksPerDay = A.end_date \div TicksPerDay
                      /\ ( /\ now \div TicksPerDay = A.end_date \div TicksPerDay
                           /\ A.filename \in DOMAIN dataFiles )
                         => pc' = "load"
                 /\ ( /\ key \in DOMAIN trackFile.idx
                      /\ \A i \in 1 .. Len(trackFile.idx[key].data_ranges) :
                            trackFile.idx[key].data_ranges[i].end_date \div TicksPerDay
                              < now \div TicksPerDay )
                    => pc' = "fetch"
        /\ (Ends /\ pc = "fetch" /\ ~IsRange(req) /\ trackFile.state = "ok")
           => /\ OwnFile(req, win) \notin DOMAIN dataFiles => last'.fetches = 1
              /\ TotalRecords(trackFile')
                   = TotalRecords(trackFile)
                     + (IF last'.status = "returned" /\ last'.df.rows # {}
                        THEN 1 ELSE 0)
              /\ (last'.status = "returned" /\ last'.df.rows # {})
                 => LET key == << (req.latitude + 5) \div 10,
                                  (req.longitude + 5) \div 10 >>
                        ranges == trackFile'.idx[key].data_ranges
                    IN /\ ranges[Len(ranges)].start_date = now - req.days * TicksPerDay
                       /\ ranges[Len(ranges)].end_date = now ]_vars

(* A day-count request repeated on a later date, when the record and the   *)
(* payload of the first were still there: a second record, for the later   *)
(* window, behind the first.                                               *)
C29_Witness ==
    /\ pc = "idle" /\ ncalls = 2 /\ ~IsRange(last.req)
    /\ NonEmpty(last) /\ ~last.hit /\ last.fetches = 1
    /\ trackFile.state = "ok"
    /\ \E k \in DOMAIN trackFile.idx :
         LET ranges == trackFile.idx[k].data_ranges IN
         /\ Len(ranges) = 2
         /\ ranges[2].end_date = last.at
         /\ ranges[1].end_date - ranges[1].start_date
              = ranges[2].end_date - ranges[2].start_date
         /\ ranges[1].end_date \div TicksPerDay < ranges[2].end_date \div TicksPerDay
         /\ ranges[1].filename \in DOMAIN dataFiles

(* C30: a request for a location that has a record covering its window,  *)
(* with the payload file in place, goes to that payload and, the file      *)
(* being still there when it is read, returns cacheHit = true without a    *)
(* remote request, however long ago the record was written.                *)
C30_NoFreshnessCheck ==
    [][ /\ ( /\ Starts /\ trackFile.state = "ok"
             /\ \E A \in CoveringRecords(trackFile.idx, req', win') :
                   A.filename \in DOMAIN dataFiles )
           => /\ pc' = "load"
              /\ \E A \in CoveringRecords(trackFile.idx, req', win') :
                    A.filename = cached_file' /\ A.filename \in DOMAIN dataFiles
        /\ (Ends /\ pc = "load" /\ cached_file \in DOMAIN dataFiles)
           => /\ last'.status = "returned" /\ last'.hit
              /\ last'.fetches = 0 /\ last'.file = cached_file ]_vars

(* A hit on a record written more than max_age_days (7 days) before, whose *)
(* payload housekeeping had not yet removed.                               *)
C30_Witness ==
    /\ pc = "idle" /\ last.hit /\ NonEmpty(last)
    /\ trackFile.state = "ok"
    /\ \E A \in CoveringRecords(trackFile.idx, last.req, last.win) :
          /\ A.filename = last.file
          /\ last.at - A.downloaded_at > 7 * TicksPerDay
          /\ A.filename \in DOMAIN dataFiles
          /\ dataFiles[A.filename].mtime = A.downloaded_at

====
